---- MODULE Spec2Model ----
(***************************************************************************)
(* Model of the three core SAT engines of sat-comparison                   *)
(* (resolution_solver.py, dp_solver.py, dpll_solver.py) and their DIMACS   *)
(* parsers.  A literal is a non-zero integer, a clause a set of literals,  *)
(* a clause list a sequence of clauses.  Verdicts: Python True = "SAT",    *)
(* False = "UNSAT", None = "TIMEOUT".                                      *)
(***************************************************************************)
EXTENDS Integers, Sequences, FiniteSets, TLC

\* ------------------------------------------------------------------ bounds
MaxVar == 2
MaxClauses == 2
MaxWidth == 2

Lits == {l \in (0 - MaxVar)..MaxVar : l # 0}
\* the clauses of at most MaxWidth literals, the empty clause and the
\* tautologies among them
Clauses == {c \in SUBSET Lits : Cardinality(c) <= MaxWidth}

Neg(l) == 0 - l
Abs(l) == IF l < 0 THEN 0 - l ELSE l
Range(s) == {s[k] : k \in 1..Len(s)}
Min(S) == CHOOSE x \in S : \A y \in S : x <= y

\* every clause list of at most n clauses over Clauses
ListsUpTo(n) == UNION {[1..m -> Clauses] : m \in 0..n}

\* ------------------------------------------- the scenarios S1..S6 (spec 8)
S1 == <<{1, 2}, {-1, 3}>>
S2 == <<{1}, {-1}>>
S3 == <<{1, 2}, {-1, 2}, {1, -2}, {-1, -2}>>
S4 == <<{1, -2}, {2, -3}, {3, -1}, {-1, -2, -3}, {1, 2, 3}>>
S5 == <<{1, 2, 3}, {-1}, {-2}, {-3}>>
S6 == <<{1, 2}, {2, 3}, {-1, -3}>>
Scenarios == {S1, S2, S3, S4, S5, S6}

\* ------------------------------------------------------- clause algebra
\* resolution_solver.can_resolve returns the first literal of c1, in the
\* iteration order of the frozenset, whose negation is in c2; the order is
\* not fixed by the language, so the model keeps every literal it may return.
can_resolve(c1, c2) == {lit \in c1 : Neg(lit) \in c2}

resolve_meet(c1, c2, lit) == (c1 \ {lit}) \cap (c2 \ {Neg(lit)})

resolve(c1, c2, lit) == (c1 \ {lit}) \cup (c2 \ {Neg(lit)})

is_tautology(clause) == \E lit \in clause : Neg(lit) \in clause

\* ------------------------------------------------------ dpll_solver.py
simplify_keeping_negation(cl, lit) == SelectSeq(cl, LAMBDA c : lit \notin c)

\* simplify(clauses, lit): drop the clauses holding lit, strip -lit.
simplify(cl, lit) ==
    LET kept == SelectSeq(cl, LAMBDA c : lit \notin c)
    IN  [k \in 1..Len(kept) |-> kept[k] \ {Neg(lit)}]

\* the clause loops of the two unit_propagate functions when no clause is
\* emptied: drop the clauses holding lit, strip -lit from the others
dpll_assign(cl, lit) ==
    LET kept == SelectSeq(cl, LAMBDA c : lit \notin c)
    IN  [k \in 1..Len(kept) |-> kept[k] \ {Neg(lit)}]

\* a clause loop that strips -lit and keeps the clauses holding lit
dp_assign_keeping_satisfied(cl, lit) == [k \in 1..Len(cl) |-> cl[k] \ {Neg(lit)}]

dp_assign(cl, lit) ==
    LET kept == SelectSeq(cl, LAMBDA c : lit \notin c)
    IN  [k \in 1..Len(kept) |-> kept[k] \ {Neg(lit)}]

\* the unit literals of a clause list, in list order
UnitsOf(cl) ==
    LET us == SelectSeq(cl, LAMBDA c : Cardinality(c) = 1)
    IN  [k \in 1..Len(us) |-> CHOOSE l \in us[k] : TRUE]

\* index of the first clause that the inner loop empties, 0 when none
FirstEmptied(cl, lit) ==
    LET hit == {k \in 1..Len(cl) : lit \notin cl[k] /\ cl[k] = {Neg(lit)}}
    IN  IF hit = {} THEN 0 ELSE Min(hit)

\* a unit_propagate that leaves its loop after the first unit literal
dpll_up_once(cl, assignment) ==
    LET units == UnitsOf(cl)
    IN  IF units = <<>> THEN [clauses |-> cl, conflict |-> FALSE]
        ELSE IF FirstEmptied(cl, units[1]) # 0
          THEN [clauses |-> dpll_assign(SubSeq(cl, 1, FirstEmptied(cl, units[1]) - 1),
                                        units[1]) \o <<{}>>,
                conflict |-> TRUE]
        ELSE [clauses |-> dpll_assign(cl, units[1]), conflict |-> FALSE]

\* dpll_solver.unit_propagate: one pass of the while loop per recursion
RECURSIVE dpll_up(_, _)
dpll_up(cl, assignment) ==
    LET units == UnitsOf(cl)
    IN  IF units = <<>> THEN [clauses |-> cl, conflict |-> FALSE]
        ELSE
          LET lit == units[1]
              var == Abs(lit)
              val == (lit > 0)
              k   == FirstEmptied(cl, lit)
          IN  IF var \in DOMAIN assignment /\ assignment[var] # val
                THEN [clauses |-> cl, conflict |-> TRUE]
              ELSE IF k # 0
                THEN [clauses |-> dpll_assign(SubSeq(cl, 1, k - 1), lit) \o <<{}>>,
                      conflict |-> TRUE]
              ELSE dpll_up(dpll_assign(cl, lit), (var :> val) @@ assignment)

dpll_unit_propagate(cl) == dpll_up(cl, <<>>)

LitsOf(cl) == UNION Range(cl)
PureLits(cl) == {lit \in LitsOf(cl) : Neg(lit) \notin LitsOf(cl)}

\* a pure_literal_elimination that takes every literal for a pure one
dpll_eliminate_every_literal(cl) ==
    IF LitsOf(cl) = {} THEN [clauses |-> cl, changed |-> FALSE]
    ELSE [clauses |-> SelectSeq(cl, LAMBDA c : c = {}), changed |-> TRUE]

dpll_pure_literal_elimination(cl) ==
    LET pure_lits == PureLits(cl)
    IN  IF pure_lits = {} THEN [clauses |-> cl, changed |-> FALSE]
        ELSE [clauses |-> SelectSeq(cl, LAMBDA c : c \cap pure_lits = {}),
              changed |-> TRUE]

\* dpll_solve under a deadline that does not expire.  The decision literal
\* next(iter(clauses[0])) depends on set iteration order, so the operator
\* returns the set of verdicts reachable over every choice of it.
RECURSIVE dpll_solve(_)
dpll_solve(cl0) ==
    LET up == dpll_unit_propagate(cl0)
    IN  IF up.conflict THEN {"UNSAT"}
        ELSE
          LET pl == dpll_pure_literal_elimination(up.clauses)
              cl == pl.clauses
          IN  IF pl.changed THEN dpll_solve(cl)
              ELSE IF cl = <<>> THEN {"SAT"}
              ELSE IF \E k \in 1..Len(cl) : cl[k] = {} THEN {"UNSAT"}
              ELSE UNION {
                     LET r1 == dpll_solve(simplify(cl, lit))
                     IN  (r1 \cap {"SAT"}) \cup
                         (IF "UNSAT" \in r1
                            THEN dpll_solve(simplify(cl, Neg(lit)))
                            ELSE {})
                     : lit \in cl[1]}

\* -------------------------------------------------------- dp_solver.py
\* dp_solver.unit_propagate; reselect marks a pass that reaches the test of
\* line 49 with a variable already in assignment, spin the `continue` branch
\* of line 53, which re-enters the loop with nothing changed.
RECURSIVE dp_up(_, _)
dp_up(cl, assignment) ==
    LET units == UnitsOf(cl)
    IN  IF units = <<>>
          THEN [clauses |-> cl, conflict |-> FALSE, spin |-> FALSE, reselect |-> FALSE]
        ELSE
          LET lit == units[1]
              var == Abs(lit)
              val == (lit > 0)
          IN  IF var \in DOMAIN assignment
                THEN IF assignment[var] # val
                       THEN [clauses |-> <<>>, conflict |-> TRUE, spin |-> FALSE,
                             reselect |-> TRUE]
                       ELSE [clauses |-> cl, conflict |-> FALSE, spin |-> TRUE,
                             reselect |-> TRUE]
              ELSE IF FirstEmptied(cl, lit) # 0
                THEN [clauses |-> <<>>, conflict |-> TRUE, spin |-> FALSE,
                      reselect |-> FALSE]
              ELSE dp_up(dp_assign(cl, lit), (var :> val) @@ assignment)

dp_unit_propagate(cl) == dp_up(cl, <<>>)

dp_pure_literal_elimination(cl) ==
    LET pure_lits == PureLits(cl)
    IN  IF pure_lits = {} THEN cl
        ELSE SelectSeq(cl, LAMBDA c : c \cap pure_lits = {})

\* one iteration of the loop of simplify_clauses
SimplifyStep(unique, c) ==
    IF \E k \in 1..Len(unique) : c \subseteq unique[k] THEN unique
    ELSE Append(SelectSeq(unique, LAMBDA d : ~(d \subseteq c)), c)

RECURSIVE SimplifyFrom(_, _, _)
SimplifyFrom(cl, k, unique) ==
    IF k > Len(cl) THEN unique
    ELSE SimplifyFrom(cl, k + 1, SimplifyStep(unique, cl[k]))

simplify_clauses(cl) == SimplifyFrom(cl, 1, <<>>)

\* the variables of cl that occur both positively and negatively
Clashing(cl) == {v \in {Abs(l) : l \in LitsOf(cl)} :
                    v \in LitsOf(cl) /\ Neg(v) \in LitsOf(cl)}

\* the resolvents on var, p-major as the nested loops of lines 136-143
\* build them, before the filter of line 139
AllResolvents(cl, var) ==
    LET pos == SelectSeq(cl, LAMBDA c : var \in c)
        neg == SelectSeq(cl, LAMBDA c : Neg(var) \in c)
    IN  [k \in 1..(Len(pos) * Len(neg)) |->
            (pos[((k - 1) \div Len(neg)) + 1] \ {var})
              \cup (neg[((k - 1) % Len(neg)) + 1] \ {Neg(var)})]

Resolvents(cl, var) ==
    SelectSeq(AllResolvents(cl, var), LAMBDA r : var \notin r /\ Neg(var) \notin r)

\* the body of dp_solve after the deadline poll: either a verdict or the
\* clause list of the recursive call
dp_body(cl0) ==
    LET up == dp_unit_propagate(cl0)
    IN  IF up.spin THEN [kind |-> "spin"]
        ELSE IF up.conflict THEN [kind |-> "ret", verdict |-> "UNSAT"]
        ELSE IF up.clauses = <<>> THEN [kind |-> "ret", verdict |-> "SAT"]
        ELSE
          LET new_clauses == dp_pure_literal_elimination(up.clauses)
          IN  IF new_clauses # up.clauses
                THEN [kind |-> "call", clauses |-> new_clauses, via |-> "pure"]
              ELSE
                LET cl == simplify_clauses(up.clauses)
                IN  IF Clashing(cl) = {} THEN [kind |-> "ret", verdict |-> "SAT"]
                    ELSE
                      LET var == Min(Clashing(cl))
                          resolvents == Resolvents(cl, var)
                          rest == SelectSeq(cl, LAMBDA c : var \notin c /\ Neg(var) \notin c)
                      IN  IF \E k \in 1..Len(resolvents) : resolvents[k] = {}
                            THEN [kind |-> "ret", verdict |-> "UNSAT"]
                          ELSE [kind |-> "call",
                                clauses |-> simplify_clauses(rest \o resolvents),
                                via |-> "elim"]

\* dp_solve under a deadline that does not expire
RECURSIVE dp_solve(_)
dp_solve(cl) ==
    LET b == dp_body(cl)
    IN  IF b.kind = "ret" THEN b.verdict
        ELSE IF b.kind = "call" THEN dp_solve(b.clauses)
        ELSE "SPIN"

\* -------------------------------------------------- resolution_solver.py
\* the non-tautological resolvents one round derives from all_clauses
RoundResolvents(all) ==
    LET pairs == {q \in all \X all : q[1] # q[2]}
        derived == UNION {{resolve(q[1], q[2], lit) : lit \in can_resolve(q[1], q[2])} :
                            q \in pairs}
    IN  {r \in derived : ~is_tautology(r)}

RECURSIVE saturate(_)
saturate(all) ==
    LET R == RoundResolvents(all)
    IN  IF {} \in R THEN "UNSAT"
        ELSE IF R \subseteq all THEN "SAT"
        ELSE saturate(all \cup R)

\* pure_resolution under a deadline that does not expire; all is
\* set(clauses) of line 67
resolution_on(all) == IF {} \in all THEN "UNSAT" ELSE saturate(all)

pure_resolution(cl) == resolution_on(Range(cl))


\* ------------------------------------------------------------------ state
VARIABLES
    clauses,          \* the clause list an engine or helper is called on
    result,           \* the verdict of each engine on clauses, "NONE" before it ran
    prev,             \* the verdicts on the list before a tautology was added
    added,            \* whether a tautology was added to clauses
    fn_out,           \* the helper applied to clauses and its successive outputs
    all_clauses, new_clauses, clause_list, i, j, resolvent, resolvents_count,
    res_pc,           \* the locals of a pure_resolution run and where it stands
    engine, stack, ret, calls, timed_out,
                      \* a dp_solve / dpll_solve run: its call stack, the value
                      \* returned to the top frame, metrics['calls'], and
                      \* whether a deadline poll has found the deadline exceeded
    file, parsed      \* a DIMACS file as lines of tokens; the parser that read it
                      \* and what it returned

vars == <<clauses, result, prev, added, fn_out,
          all_clauses, new_clauses, clause_list, i, j, resolvent, resolvents_count, res_pc,
          engine, stack, ret, calls, timed_out, file, parsed>>

engineVars == <<result, prev, added>>
resVars == <<all_clauses, new_clauses, clause_list, i, j, resolvent, resolvents_count, res_pc>>
runVars == <<engine, stack, ret, calls, timed_out>>
parseVars == <<file, parsed>>

NoResult == [res |-> "NONE", dp |-> "NONE", dpll |-> "NONE"]

EnginesIdle == result = NoResult /\ prev = NoResult /\ added = FALSE
FnIdle == fn_out = [fn |-> "none", outs |-> <<>>]
ResIdle == /\ all_clauses = {} /\ new_clauses = {} /\ clause_list = <<>>
           /\ i = 0 /\ j = 0 /\ resolvent = <<>> /\ resolvents_count = 0
           /\ res_pc = "idle"
RunIdle == /\ engine = "none" /\ stack = <<>> /\ ret = "NONE"
           /\ calls = 0 /\ timed_out = FALSE
ParseIdle == file = <<>> /\ parsed = [by |-> "none"]

\* ------------------------------------------- engines called on a clause list
\* a further input: an unsatisfiable list on which dp_solve reports UNSAT
TautProbe == <<{1, 2}, {-1, 2}, {-2, 3}, {-2, -3}>>
\* and one on which unit propagation meets a conflict after a clause it kept
UnitProbe == <<{1}, {-1, 2}, {-1}>>

Inputs == ListsUpTo(MaxClauses) \cup Scenarios \cup {TautProbe, UnitProbe}

\* The engines share no state, so the order in which they are run on the
\* list does not matter to any verdict; they run in a fixed order.
RunResolution ==
    /\ result.res = "NONE"
    /\ result' = [result EXCEPT !.res = pure_resolution(clauses)]
    /\ UNCHANGED <<clauses, prev, added, fn_out, resVars, runVars, parseVars>>

RunDP ==
    /\ result.res # "NONE" /\ result.dp = "NONE"
    /\ result' = [result EXCEPT !.dp = dp_solve(clauses)]
    /\ UNCHANGED <<clauses, prev, added, fn_out, resVars, runVars, parseVars>>

RunDPLL ==
    /\ result.dp # "NONE" /\ result.dpll = "NONE"
    /\ \E v \in dpll_solve(clauses) : result' = [result EXCEPT !.dpll = v]
    /\ UNCHANGED <<clauses, prev, added, fn_out, resVars, runVars, parseVars>>

Init ==
    /\ clauses \in Inputs
    /\ EnginesIdle /\ FnIdle /\ ResIdle /\ RunIdle /\ ParseIdle

Next == RunResolution \/ RunDP \/ RunDPLL

Spec == Init /\ [][Next]_vars

\* ------------------------------------------- adding a tautology to the list
InsertAt(cl, pos, c) == SubSeq(cl, 1, pos - 1) \o <<c>> \o SubSeq(cl, pos, Len(cl))

Tautologies(cl) == {c \in SUBSET (Lits \cup LitsOf(cl)) : is_tautology(c)}

AddTautology ==
    /\ added = FALSE
    /\ \A e \in DOMAIN result : result[e] # "NONE"
    /\ \E T \in Tautologies(clauses), pos \in 1..(Len(clauses) + 1) :
          clauses' = InsertAt(clauses, pos, T)
    /\ prev' = result
    /\ result' = NoResult
    /\ added' = TRUE
    /\ UNCHANGED <<fn_out, resVars, runVars, parseVars>>

NextTaut == Next \/ AddTautology

SpecTaut == Init /\ [][NextTaut]_vars


\* ------------------------------------ helpers applied to a clause list
\* fn_out.outs holds the output of the helper on clauses and then the output
\* of the helper on the clause list of the previous output.
LastList == IF fn_out.outs = <<>> THEN clauses
            ELSE fn_out.outs[Len(fn_out.outs)].clauses

UnitPropagateDPLL ==
    /\ fn_out.fn \in {"none", "dpll_unit_propagate"}
    /\ Len(fn_out.outs) < 2
    /\ fn_out' = [fn |-> "dpll_unit_propagate",
                  outs |-> Append(fn_out.outs, dpll_unit_propagate(LastList))]
    /\ UNCHANGED <<clauses, engineVars, resVars, runVars, parseVars>>

UnitPropagateDP ==
    /\ fn_out.fn \in {"none", "dp_unit_propagate"}
    /\ Len(fn_out.outs) < 2
    /\ fn_out' = [fn |-> "dp_unit_propagate",
                  outs |-> Append(fn_out.outs, dp_unit_propagate(LastList))]
    /\ UNCHANGED <<clauses, engineVars, resVars, runVars, parseVars>>

SimplifyClauses ==
    /\ fn_out.fn = "none"
    /\ fn_out' = [fn |-> "simplify_clauses",
                  outs |-> <<[clauses |-> simplify_clauses(clauses)]>>]
    /\ UNCHANGED <<clauses, engineVars, resVars, runVars, parseVars>>

NextFn == UnitPropagateDPLL \/ UnitPropagateDP \/ SimplifyClauses

SpecFn == Init /\ [][NextFn]_vars

\* -------------------------------------------- pure_resolution, step by step
\* list(all_clauses) enumerates the set in an order the language leaves open
RECURSIVE Orders(_)
Orders(S) == IF S = {} THEN {<<>>}
             ELSE UNION {{<<x>> \o p : p \in Orders(S \ {x})} : x \in S}

\* lines 67-73
ResStart ==
    /\ res_pc = "start"
    /\ all_clauses' = Range(clauses)
    /\ resolvents_count' = 0
    /\ IF {} \in Range(clauses)
         THEN res_pc' = "done" /\ result' = [result EXCEPT !.res = "UNSAT"]
         ELSE res_pc' = "round" /\ UNCHANGED result
    /\ UNCHANGED <<clauses, prev, added, fn_out, new_clauses, clause_list, i, j,
                   resolvent, runVars, parseVars>>

\* lines 75-92: the top of a round; late is the outcome of the deadline poll
ResRound ==
    /\ res_pc = "round"
    /\ \E late \in BOOLEAN :
         IF late
           THEN /\ res_pc' = "done"
                /\ result' = [result EXCEPT !.res = "TIMEOUT"]
                /\ UNCHANGED <<new_clauses, clause_list, i, j>>
           ELSE /\ new_clauses' = {}
                /\ clause_list' \in Orders(all_clauses)
                /\ i' = 1 /\ j' = 2
                /\ res_pc' = IF Cardinality(all_clauses) < 2 THEN "end" ELSE "pairs"
                /\ UNCHANGED result
    /\ UNCHANGED <<clauses, prev, added, fn_out, all_clauses, resolvent,
                   resolvents_count, runVars, parseVars>>

\* the loop headers of lines 92-93 after the pair (i, j)
Advance ==
    LET n == Len(clause_list)
    IN  IF j < n THEN i' = i /\ j' = j + 1 /\ res_pc' = "pairs"
        ELSE IF i + 1 < n THEN i' = i + 1 /\ j' = i + 2 /\ res_pc' = "pairs"
        ELSE i' = i /\ j' = j /\ res_pc' = "end"

\* lines 94-114: the body of the inner loop on the pair (i, j)
ResPair ==
    /\ res_pc = "pairs"
    /\ LET c1 == clause_list[i]
           c2 == clause_list[j]
       IN  IF can_resolve(c1, c2) = {}
             THEN Advance /\ UNCHANGED <<result, new_clauses, resolvent, resolvents_count>>
             ELSE \E lit \in can_resolve(c1, c2) :
                    LET r == resolve(c1, c2, lit)
                    IN  /\ resolvent' = <<r>>
                        /\ IF is_tautology(r)
                             THEN Advance /\ UNCHANGED <<result, new_clauses, resolvents_count>>
                           ELSE IF r = {}
                             THEN /\ res_pc' = "done"
                                  /\ result' = [result EXCEPT !.res = "UNSAT"]
                                  /\ resolvents_count' = resolvents_count + 1
                                  /\ UNCHANGED <<i, j, new_clauses>>
                           ELSE IF r \notin all_clauses /\ r \notin new_clauses
                             THEN /\ new_clauses' = new_clauses \cup {r}
                                  /\ resolvents_count' = resolvents_count + 1
                                  /\ Advance /\ UNCHANGED result
                           ELSE Advance /\ UNCHANGED <<result, new_clauses, resolvents_count>>
    /\ UNCHANGED <<clauses, prev, added, fn_out, all_clauses, clause_list,
                   runVars, parseVars>>

\* lines 117-125
ResRoundEnd ==
    /\ res_pc = "end"
    /\ IF new_clauses = {}
         THEN /\ res_pc' = "done"
              /\ result' = [result EXCEPT !.res = "SAT"]
              /\ UNCHANGED all_clauses
         ELSE /\ all_clauses' = all_clauses \cup new_clauses
              /\ res_pc' = "round"
              /\ UNCHANGED result
    /\ UNCHANGED <<clauses, prev, added, fn_out, new_clauses, clause_list, i, j,
                   resolvent, resolvents_count, runVars, parseVars>>

\* an unsatisfiable list whose empty resolvent needs a second round
ResProbe == <<{1, 2}, {-1}, {-2}>>

ResInputs == ListsUpTo(MaxClauses) \cup {S1, S2, S6, ResProbe}

InitRes ==
    /\ clauses \in ResInputs
    /\ EnginesIdle /\ FnIdle /\ RunIdle /\ ParseIdle
    /\ all_clauses = {} /\ new_clauses = {} /\ clause_list = <<>>
    /\ i = 0 /\ j = 0 /\ resolvent = <<>> /\ resolvents_count = 0
    /\ res_pc = "start"

NextRes == ResStart \/ ResRound \/ ResPair \/ ResRoundEnd

SpecRes == InitRes /\ [][NextRes]_vars


\* ------------------------- dp_solve and dpll_solve, call by call, with the
\* deadline.  A frame holds the clause list of the call and where the call
\* stands: "entry" before its body ran, "pure" / "first" / "second" (DPLL)
\* or "tail" (DP) while it waits for the recursive call it made.
Frame(cl, pc, lit) == [clauses |-> cl, pc |-> pc, lit |-> lit]
Top == stack[Len(stack)]
Pop == SubSeq(stack, 1, Len(stack) - 1)
ReplaceTop(f) == [stack EXCEPT ![Len(stack)] = f]

\* the value v is returned by the top frame: to its caller, or as the
\* verdict of the run when it is the first call
Return(v) ==
    /\ stack' = Pop
    /\ ret' = v
    /\ result' = IF Len(stack) = 1 THEN [result EXCEPT ![engine] = v] ELSE result

\* dpll_solve lines 143-149: what the caller does with the result of the
\* first branch
AfterFirstIgnoringTimeout(r) == IF r = "SAT" THEN "return" ELSE "second"

AfterFirst(r) ==
    IF r = "TIMEOUT" THEN "return"
    ELSE IF r = "SAT" THEN "return"
    ELSE "second"

\* dpll_solve lines 111-142: a call runs from its entry to its first
\* recursive call or to its return; late is the outcome of the deadline poll
DpllCall ==
    /\ engine = "dpll" /\ stack # <<>> /\ Top.pc = "entry"
    /\ calls' = calls + 1
    /\ \E late \in BOOLEAN :
         IF late
           THEN timed_out' = TRUE /\ Return("TIMEOUT")
           ELSE
             /\ UNCHANGED timed_out
             /\ LET up == dpll_unit_propagate(Top.clauses)
                    pl == dpll_pure_literal_elimination(up.clauses)
                    cl == pl.clauses
                IN  IF up.conflict THEN Return("UNSAT")
                    ELSE IF pl.changed
                      THEN /\ stack' = Append(ReplaceTop(Frame(cl, "pure", 0)),
                                              Frame(cl, "entry", 0))
                           /\ UNCHANGED <<ret, result>>
                    ELSE IF cl = <<>> THEN Return("SAT")
                    ELSE IF \E k \in 1..Len(cl) : cl[k] = {} THEN Return("UNSAT")
                    ELSE \E lit \in cl[1] :
                           /\ stack' = Append(ReplaceTop(Frame(cl, "first", lit)),
                                              Frame(simplify(cl, lit), "entry", 0))
                           /\ UNCHANGED <<ret, result>>
    /\ UNCHANGED <<clauses, prev, added, fn_out, resVars, engine, parseVars>>

\* dpll_solve lines 132, 142-150: a recursive call has returned ret
DpllReturn ==
    /\ engine = "dpll" /\ stack # <<>> /\ Top.pc \in {"pure", "first", "second"}
    /\ IF Top.pc = "first" /\ AfterFirst(ret) = "second"
         THEN /\ stack' = Append(ReplaceTop(Frame(Top.clauses, "second", Top.lit)),
                                 Frame(simplify(Top.clauses, Neg(Top.lit)), "entry", 0))
              /\ ret' = "NONE"
              /\ UNCHANGED result
         ELSE Return(ret)
    /\ UNCHANGED <<clauses, prev, added, fn_out, resVars, engine, calls, timed_out,
                   parseVars>>

\* dp_solve lines 97-146
DpCall ==
    /\ engine = "dp" /\ stack # <<>> /\ Top.pc = "entry"
    /\ calls' = calls + 1
    /\ \E late \in BOOLEAN :
         IF late
           THEN timed_out' = TRUE /\ Return("TIMEOUT")
           ELSE
             /\ UNCHANGED timed_out
             /\ LET b == dp_body(Top.clauses)
                IN  IF b.kind = "ret" THEN Return(b.verdict)
                    ELSE IF b.kind = "call"
                      THEN /\ stack' = Append(ReplaceTop(Frame(Top.clauses, "tail", 0)),
                                              Frame(b.clauses, "entry", 0))
                           /\ UNCHANGED <<ret, result>>
                    ELSE /\ stack' = ReplaceTop(Frame(Top.clauses, "spin", 0))
                         /\ UNCHANGED <<ret, result>>
    /\ UNCHANGED <<clauses, prev, added, fn_out, resVars, engine, parseVars>>

\* dp_solve lines 119 and 146: the result of the recursive call is returned
DpReturn ==
    /\ engine = "dp" /\ stack # <<>> /\ Top.pc = "tail"
    /\ Return(ret)
    /\ UNCHANGED <<clauses, prev, added, fn_out, resVars, engine, calls, timed_out,
                   parseVars>>

InitRun ==
    /\ clauses \in Inputs
    /\ EnginesIdle /\ FnIdle /\ ResIdle /\ ParseIdle
    /\ engine \in {"dp", "dpll"}
    /\ stack = <<Frame(clauses, "entry", 0)>>
    /\ ret = "NONE" /\ calls = 0 /\ timed_out = FALSE

NextRun == DpllCall \/ DpllReturn \/ DpCall \/ DpReturn

SpecRun == InitRun /\ [][NextRun]_vars


\* ------------------------- the three engines under a deadline that never
\* expires: every deadline poll (resolution_solver.py line 80, dp_solver.py
\* line 101, dpll_solver.py line 115) finds the deadline not exceeded.
ResRoundInTime == ResRound /\ result'.res # "TIMEOUT"

DpllCallInTime == DpllCall /\ ~timed_out'

DpCallInTime == DpCall /\ ~timed_out'

\* The fairness condition below makes TLC evaluate ENABLED of every action in
\* every state, without the caching of the plain search: the scenarios whose
\* working set (pure_resolution) or elimination step (dp_solve) grows
\* largest are left to SpecRes and SpecRun.
LiveInputs(e) ==
    CASE e = "res"  -> ListsUpTo(MaxClauses) \cup {S1, S2, ResProbe}
      [] e = "dp"   -> ListsUpTo(MaxClauses) \cup {S1, S2, S5, S6, UnitProbe}
      [] e = "dpll" -> Inputs

InitLive ==
    /\ EnginesIdle /\ FnIdle /\ ParseIdle
    /\ engine \in {"res", "dp", "dpll"}
    /\ clauses \in LiveInputs(engine)
    /\ all_clauses = {} /\ new_clauses = {} /\ clause_list = <<>>
    /\ i = 0 /\ j = 0 /\ resolvent = <<>> /\ resolvents_count = 0
    /\ res_pc = (IF engine = "res" THEN "start" ELSE "idle")
    /\ stack = (IF engine = "res" THEN <<>> ELSE <<Frame(clauses, "entry", 0)>>)
    /\ ret = "NONE" /\ calls = 0 /\ timed_out = FALSE

NextLive ==
    \/ ResStart \/ ResRoundInTime \/ ResPair \/ ResRoundEnd
    \/ DpllCallInTime \/ DpllReturn
    \/ DpCallInTime \/ DpReturn

\* an engine is one sequential thread that keeps running until it returns
SpecLive == InitLive /\ [][NextLive]_vars /\ WF_vars(NextLive)


\* ---------------------------------------------------------- the parsers
\* A line is the sequence of its whitespace-separated tokens (line.strip()
\* followed by split()); a file is a sequence of lines.
MaxLineLen == 2
MaxLines == 2

Tokens == {"0", "1", "-1", "2", "c", "p", "cnf", "%"}
Header == <<"p", "cnf", "2", "2">>
Lines == UNION {[1..n -> Tokens] : n \in 0..MaxLineLen} \cup {Header}
Files == UNION {[1..n -> Lines] : n \in 0..MaxLines}

\* the first character of a token, for line.startswith
FirstChar(tok) ==
    CASE tok = "0" -> "0" [] tok = "1" -> "1" [] tok = "-1" -> "-" [] tok = "2" -> "2"
      [] tok = "c" -> "c" [] tok = "cnf" -> "c" [] tok = "p" -> "p" [] tok = "%" -> "%"

StartsWith(line, ch) == line # <<>> /\ FirstChar(line[1]) = ch

\* int(tok): defined on the integer tokens, ValueError on the others
IsInt(tok) == tok \in {"0", "1", "-1", "2"}
ToInt(tok) == CASE tok = "0" -> 0 [] tok = "1" -> 1 [] tok = "-1" -> -1 [] tok = "2" -> 2

\* lines 27-28 of dpll_solver.py, 24-25 of resolution_solver.py: a trailing
\* "0" token is dropped
StripZeroToken(parts) ==
    IF parts # <<>> /\ parts[Len(parts)] = "0" THEN SubSeq(parts, 1, Len(parts) - 1)
    ELSE parts

\* dp_solver.parse_cnf, one line: "skip", "error" (an exception leaves
\* parse_cnf) or the clause the line appends
dp_parse_line(line) ==
    IF line = <<>> \/ StartsWith(line, "c") THEN [kind |-> "skip"]
    ELSE IF StartsWith(line, "p")
      THEN IF Len(line) < 2 \/ line[2] # "cnf" THEN [kind |-> "error"]
           ELSE IF Len(line) < 3 \/ ~IsInt(line[3]) THEN [kind |-> "error"]
           ELSE [kind |-> "header", num_vars |-> ToInt(line[3])]
    ELSE IF \E k \in 1..Len(line) : ~IsInt(line[k]) THEN [kind |-> "error"]
    ELSE
      LET ints == [k \in 1..Len(line) |-> ToInt(line[k])]
          literals == IF ints[Len(ints)] = 0 THEN SubSeq(ints, 1, Len(ints) - 1) ELSE ints
      IN  IF literals # <<>> THEN [kind |-> "clause", clause |-> Range(literals)]
          ELSE [kind |-> "skip"]

\* dpll_solver.parse_cnf, one line
dpll_parse_line(line) ==
    IF line = <<>> \/ StartsWith(line, "c") \/ StartsWith(line, "%") THEN [kind |-> "skip"]
    ELSE IF StartsWith(line, "p")
      THEN IF Len(line) >= 2 /\ line[2] = "cnf" THEN [kind |-> "skip"]
           ELSE [kind |-> "error"]
    ELSE
      LET parts == StripZeroToken(line)
          lits == SelectSeq(parts, LAMBDA t : t # "0")
      IN  IF \E k \in 1..Len(lits) : ~IsInt(lits[k]) THEN [kind |-> "error"]
          ELSE IF lits # <<>>
            THEN [kind |-> "clause", clause |-> {ToInt(lits[k]) : k \in 1..Len(lits)}]
          ELSE [kind |-> "skip"]

\* resolution_solver.parse_cnf, one line
res_parse_line(line) ==
    IF line = <<>> \/ StartsWith(line, "c") \/ StartsWith(line, "%") THEN [kind |-> "skip"]
    ELSE IF StartsWith(line, "p") THEN [kind |-> "skip"]
    ELSE
      LET parts == StripZeroToken(line)
          lits == SelectSeq(parts, LAMBDA t : t # "0" /\ IsInt(t))
      IN  IF lits # <<>>
            THEN [kind |-> "clause", clause |-> {ToInt(lits[k]) : k \in 1..Len(lits)}]
          ELSE [kind |-> "skip"]

\* the clause list a parser builds from the per-line outcomes
ParsedClauses(outs) ==
    LET cs == SelectSeq(outs, LAMBDA o : o.kind = "clause")
    IN  [k \in 1..Len(cs) |-> cs[k].clause]

ParseFailed(outs) == \E k \in 1..Len(outs) : outs[k].kind = "error"

dp_parse_cnf(f) ==
    LET outs == [k \in 1..Len(f) |-> dp_parse_line(f[k])]
    IN  IF ParseFailed(outs) THEN [by |-> "dp", ok |-> FALSE]
        ELSE [by |-> "dp", ok |-> TRUE, clauses |-> ParsedClauses(outs)]

dpll_parse_cnf(f) ==
    LET outs == [k \in 1..Len(f) |-> dpll_parse_line(f[k])]
    IN  IF ParseFailed(outs) THEN [by |-> "dpll", ok |-> FALSE]
        ELSE [by |-> "dpll", ok |-> TRUE, clauses |-> ParsedClauses(outs)]

\* returns set(clauses)
res_parse_cnf(f) ==
    LET outs == [k \in 1..Len(f) |-> res_parse_line(f[k])]
    IN  [by |-> "res", ok |-> TRUE, clauses |-> Range(ParsedClauses(outs))]

ParseDP ==
    /\ parsed.by = "none"
    /\ parsed' = dp_parse_cnf(file)
    /\ UNCHANGED <<clauses, engineVars, fn_out, resVars, runVars, file>>

ParseDPLL ==
    /\ parsed.by = "none"
    /\ parsed' = dpll_parse_cnf(file)
    /\ UNCHANGED <<clauses, engineVars, fn_out, resVars, runVars, file>>

ParseRes ==
    /\ parsed.by = "none"
    /\ parsed' = res_parse_cnf(file)
    /\ UNCHANGED <<clauses, engineVars, fn_out, resVars, runVars, file>>

\* main() of each solver: the engine runs on what its parser returned
SolveParsed ==
    /\ parsed.by # "none" /\ parsed.ok
    /\ result[parsed.by] = "NONE"
    /\ \E v \in (CASE parsed.by = "dp" -> {dp_solve(parsed.clauses)}
                   [] parsed.by = "dpll" -> dpll_solve(parsed.clauses)
                   [] parsed.by = "res" -> {resolution_on(parsed.clauses)}) :
          result' = [result EXCEPT ![parsed.by] = v]
    /\ UNCHANGED <<clauses, prev, added, fn_out, resVars, runVars, parseVars>>

InitParse ==
    /\ file \in Files
    /\ parsed = [by |-> "none"]
    /\ clauses = <<>>
    /\ EnginesIdle /\ FnIdle /\ ResIdle /\ RunIdle

NextParse == ParseDP \/ ParseDPLL \/ ParseRes \/ SolveParsed

SpecParse == InitParse /\ [][NextParse]_vars


\* ================================================================ claims
Engines == {"res", "dp", "dpll"}
Ran(e) == result[e] # "NONE"

\* propositional semantics, for the claims only
VarsOf(S) == {Abs(l) : l \in UNION S}
Holds(a, c) == \E l \in c : a[Abs(l)] = (l > 0)
Entails(F, c) ==
    \A a \in [VarsOf(F \cup {c}) -> BOOLEAN] :
        (\A d \in F : Holds(a, d)) => Holds(a, c)

\* C1 (as stated): any two engines that have finished on the same formula
\* return the same verdict, and it is SAT or UNSAT.
C1_Agreement ==
    \A e1, e2 \in Engines :
        (Ran(e1) /\ Ran(e2)) =>
            (result[e1] = result[e2] /\ result[e1] \in {"SAT", "UNSAT"})

\* C2 (as stated): on S2, S3 and S5 every engine that has run returned UNSAT.
C2_UnsatScenarios ==
    (clauses \in {S2, S3, S5}) => \A e \in Engines : Ran(e) => result[e] = "UNSAT"

\* C3 (as stated): on S1, S4 and S6 every engine that has run returned SAT.
C3_SatScenarios ==
    (clauses \in {S1, S4, S6}) => \A e \in Engines : Ran(e) => result[e] = "SAT"

\* C3 (amended): on S1 and S6 every engine that has run returned SAT; on S4,
\* which no assignment satisfies, pure_resolution and dpll_solve returned
\* UNSAT.
C3_ScenariosAmended ==
    /\ (clauses \in {S1, S6}) => \A e \in Engines : Ran(e) => result[e] = "SAT"
    /\ (clauses = S4) => \A e \in {"res", "dpll"} : Ran(e) => result[e] = "UNSAT"

C3_Witness ==
    clauses = S4 /\ result.res = "UNSAT" /\ result.dpll = "UNSAT"

\* C4 (as stated): on a clause list that holds the empty clause every engine
\* that has run returned UNSAT.
C4_EmptyClauseUnsat ==
    ({} \in Range(clauses)) => \A e \in Engines : Ran(e) => result[e] = "UNSAT"

\* C5 (as stated): after a tautological clause was added to the list, every
\* engine that has run on the longer list returned the verdict it returned
\* before.
C5_TautologyInsensitive ==
    added => \A e \in Engines : Ran(e) => result[e] = prev[e]

\* C6 (as stated): for both unit_propagate functions, a second application
\* returns the clause list of the first unchanged, conflict or not.
C6_PropagationIdempotent ==
    (fn_out.fn \in {"dpll_unit_propagate", "dp_unit_propagate"} /\ Len(fn_out.outs) = 2)
        => fn_out.outs[2].clauses = fn_out.outs[1].clauses

\* C6 (amended): a second application of unit_propagate returns the clause
\* list of the first unchanged: for the DP version always, for the DPLL
\* version when the first application reported no conflict.
C6_PropagationIdempotentAmended ==
    (/\ fn_out.fn \in {"dpll_unit_propagate", "dp_unit_propagate"}
     /\ Len(fn_out.outs) = 2
     /\ (fn_out.fn = "dp_unit_propagate" \/ ~fn_out.outs[1].conflict))
        => fn_out.outs[2].clauses = fn_out.outs[1].clauses

C6_Witness ==
    /\ fn_out.fn = "dpll_unit_propagate" /\ Len(fn_out.outs) = 2
    /\ ~fn_out.outs[1].conflict
    /\ fn_out.outs[1].clauses # clauses
    /\ fn_out.outs[1].clauses # <<>>

\* C7: at every point of a pure_resolution run every clause of all_clauses,
\* of new_clauses and the resolvent just formed is a logical consequence of
\* the input, and UNSAT is returned only when the empty clause is in the
\* input or is the resolvent just formed.
C7_ResolutionSound ==
    /\ \A c \in all_clauses \cup new_clauses \cup Range(resolvent) :
          Entails(Range(clauses), c)
    /\ (result.res = "UNSAT") => ({} \in Range(clauses) \/ resolvent = <<{}>>)

C7_Witness ==
    /\ result.res = "UNSAT" /\ resolvent = <<{}>>
    /\ all_clauses # Range(clauses)

\* C8: once a deadline poll has found the deadline exceeded, the polling
\* call returns TIMEOUT, every later step returns TIMEOUT one frame up
\* without starting a call (metrics['calls'] stays), and the verdict of the
\* run is TIMEOUT.
C8_TimeoutPropagates ==
    [][/\ (timed_out' /\ ~timed_out) =>
             (stack' = Pop /\ ret' = "TIMEOUT")
       /\ timed_out =>
             (stack' = Pop /\ ret' = "TIMEOUT" /\ calls' = calls /\ timed_out')
       /\ (timed_out' /\ stack' = <<>>) => result'[engine] = "TIMEOUT"]_vars

C8_Witness ==
    /\ engine = "dpll" /\ timed_out /\ ret = "TIMEOUT"
    /\ stack # <<>> /\ Top.pc = "first" /\ calls > 2

\* C9 (as stated): a parser that read a file with a clause line holding only
\* the terminating 0 returns a clause set with the empty clause, and the
\* engine it feeds reports UNSAT.
C9_ParserKeepsEmptyClause ==
    (/\ parsed.by # "none"
     /\ \E k \in 1..Len(file) : file[k] = <<"0">>
     /\ parsed.ok)
        => /\ {} \in (IF parsed.by = "res" THEN parsed.clauses ELSE Range(parsed.clauses))
           /\ Ran(parsed.by) => result[parsed.by] = "UNSAT"

\* the subset-minimal clauses of a set of clauses
Minimal(S) == {c \in S : ~\E d \in S : d \subseteq c /\ d # c}

\* C10 (as stated): simplify_clauses returns exactly the subset-minimal
\* clauses of its argument, each once.
C10_SubsumptionKeepsSmaller ==
    (fn_out.fn = "simplify_clauses") =>
        LET out == fn_out.outs[1].clauses
        IN  /\ Range(out) = Minimal(Range(clauses))
            /\ Cardinality(Range(out)) = Len(out)

\* the frames of a dp_solve run whose call was made by the elimination step
\* (line 146) of the frame below: that frame still holds the clause list it
\* was called on
CalledByElimination ==
    {k \in 2..Len(stack) :
        LET b == dp_body(stack[k - 1].clauses)
        IN  b.kind = "call" /\ b.via = "elim"}

TautologyFree(cl) == \A c \in Range(cl) : ~is_tautology(c)

\* C11 (as stated): in a dp_solve run on a tautology-free clause list, the
\* clause list handed to the recursive call by the elimination step holds no
\* tautological clause, on the eliminated variable or on any other.
C11_EliminationDropsTautologies ==
    (engine = "dp" /\ TautologyFree(clauses)) =>
        \A k \in CalledByElimination : TautologyFree(stack[k].clauses)

\* whether some total assignment of the variables of F satisfies every
\* clause of F
Satisfiable(F) ==
    \E a \in [VarsOf(F) -> BOOLEAN] : \A c \in F : Holds(a, c)

Smaller(a, b) ==
    \/ Cardinality(VarsOf(Range(a))) < Cardinality(VarsOf(Range(b)))
    \/ Len(a) < Len(b)

Returned == result[engine] \in {"SAT", "UNSAT"}

\* a resolution round either returns or strictly enlarges the working set
RoundEnlarges ==
    (res_pc = "end") =>
        \/ res_pc' = "done"
        \/ (all_clauses \subseteq all_clauses' /\ all_clauses' # all_clauses)

\* a recursive call is made on a list smaller than the one its caller holds
CallShrinks ==
    (Len(stack') > Len(stack)) => Smaller(stack'[Len(stack')].clauses, Top.clauses)

\* the calls below the first are no more than the variables of the input
DepthBounded == Len(stack) - 1 <= Cardinality(VarsOf(Range(clauses)))

\* no dp_solve call runs a unit_propagate that selects a unit literal whose
\* variable is already assigned, and none is left in its `continue` branch
NoReselection ==
    (engine = "dp") =>
        \A k \in 1..Len(stack) :
            /\ ~dp_unit_propagate(stack[k].clauses).reselect
            /\ stack[k].pc # "spin"

====
